---- MODULE Spec2Model ----
(***************************************************************************)
(* Graduation-requirement rule engine (services/ruleEngine.js) together    *)
(* with the course stores it reads (models/firebaseMasterModel.js).        *)
(*                                                                         *)
(* JavaScript values are modelled as tagged records so that `undefined`,   *)
(* NaN, booleans, numbers, strings and promises stay distinguishable; an   *)
(* operation's outcome is a completion record: either a returned value or  *)
(* a thrown error, together with the trace of calls it made.               *)
(***************************************************************************)
EXTENDS Integers, Sequences, FiniteSets, TLC

\* ------------------------------------------------------------------ bounds
\* longest courseCodes array a request carries
MaxCodes == 2
\* most children of a synthetic (stub) RuleGroup
MaxChildren == 2
\* most clients with a model call in flight at once
MaxClients == 2
\* most model calls one client makes
MaxCalls == 2

\* ------------------------------------------------------- JavaScript values
Undefined == [t |-> "undefined"]
NaN == [t |-> "NaN"]
Num(n) == [t |-> "number", n |-> n]
Bool(b) == [t |-> "boolean", b |-> b]
Str(s) == [t |-> "string", s |-> s]
Arr(a) == [t |-> "array", a |-> a]
\* an object created by calling an async function: the promise of `key`
PromiseOf(key) == [t |-> "promise", key |-> key]

IsNum(v) == v.t = "number"
IsBool(v) == v.t = "boolean"

\* ToBoolean
Truthy(v) ==
  CASE v.t = "boolean" -> v.b
    [] v.t = "number" -> v.n /= 0
    [] v.t = "string" -> v.s /= ""
    [] v.t = "array" -> TRUE
    [] v.t = "promise" -> TRUE
    [] OTHER -> FALSE

\* a || b
OrElse(a, b) == IF Truthy(a) THEN a ELSE b

\* ToNumber: course codes such as 'CS204' are not numeric strings
ToNumber(v) ==
  CASE v.t = "number" -> v
    [] v.t = "boolean" -> Num(IF v.b THEN 1 ELSE 0)
    [] OTHER -> NaN

\* a - b
Minus(a, b) ==
  LET x == ToNumber(a)
      y == ToNumber(b)
  IN IF IsNum(x) /\ IsNum(y) THEN Num(x.n - y.n) ELSE NaN

\* a + b on numbers (credit sums)
Plus(a, b) ==
  LET x == ToNumber(a)
      y == ToNumber(b)
  IN IF IsNum(x) /\ IsNum(y) THEN Num(x.n + y.n) ELSE NaN

\* a >= b (false when either side is NaN)
GreaterEq(a, b) ==
  LET x == ToNumber(a)
      y == ToNumber(b)
  IN IsNum(x) /\ IsNum(y) /\ x.n >= y.n

\* a < b (false when either side is NaN)
LessThan(a, b) ==
  LET x == ToNumber(a)
      y == ToNumber(b)
  IN IsNum(x) /\ IsNum(y) /\ x.n < y.n

\* Math.max(a, b)
MathMax(a, b) ==
  LET x == ToNumber(a)
      y == ToNumber(b)
  IN IF IsNum(x) /\ IsNum(y) THEN Num(IF x.n >= y.n THEN x.n ELSE y.n) ELSE NaN

\* const { passed, current } = v : a promise has neither property
Destructure(v, field) ==
  IF v.t = "object" /\ field \in DOMAIN v.o THEN v.o[field] ELSE Undefined

Obj(o) == [t |-> "object", o |-> o]

\* ------------------------------------------------------------- completions
Return(v, tr) == [ok |-> TRUE, val |-> v, err |-> "", trace |-> tr]
Throw(e, tr) == [ok |-> FALSE, val |-> Undefined, err |-> e, trace |-> tr]

\* trace events
Ev(kind, what) == [ev |-> kind, what |-> what]

RuleType ==
  [TOTAL_CREDIT |-> "TOTAL_CREDIT",
   MAJOR_BASIC_CREDIT |-> "MAJOR_BASIC_CREDIT",
   MAJOR_ADVANCED_CREDIT |-> "MAJOR_ADVANCED_CREDIT",
   LIBERAL_TOTAL_CREDIT |-> "LIBERAL_TOTAL_CREDIT",
   REQUIRED_COURSE |-> "REQUIRED_COURSE",
   EXTRA_CURRICULAR |-> "EXTRA_CURRICULAR"]

LogicType == [AND |-> "AND", OR |-> "OR"]

\* ------------------------------------------------------------------ inputs
\* course codes that occur in requests and in the courses_master collection
Codes == {"CS204", "X101"}

\* grades[code]: a letter grade, or no entry
NoGrade == "none"
Grades == {"A+", "F", NoGrade}

\* studentType values (route default '신입생'); Undefined when omitted
TransferStudent == "편입생"
Freshman == "신입생"
StudentTypes == {Str(TransferStudent), Str(Freshman), Undefined}

\* extraCurricularUnits values; Undefined when omitted
UnitValues == {Undefined, Num(34), Num(35), Num(40), Num(69), Num(70)}

RECURSIVE SeqsUpTo(_, _)
SeqsUpTo(S, n) ==
  IF n = 0 THEN {<<>>}
  ELSE LET shorter == SeqsUpTo(S, n - 1)
       IN shorter \cup {Append(s, x) : s \in {q \in shorter : Len(q) = n - 1}, x \in S}

\* courseCodes as sent by a caller: an array, omitted, or a non-array value
CourseCodeArrays == {Arr(s) : s \in SeqsUpTo(Codes, MaxCodes)}
CourseCodeValues == CourseCodeArrays \cup {Undefined, Str("CS204")}

\* contexts that vary the course record (courseCodes over cc, every grades map)
\* with the student metadata omitted, and contexts that vary the student
\* metadata over one course taken without a grade
ContextsOver(cc) ==
  [courseCodes : cc, grades : [Codes -> Grades],
   studentType : {Undefined}, extraCurricularUnits : {Undefined}]
  \cup [courseCodes : {Arr(<<"CS204">>)}, grades : {[code \in Codes |-> NoGrade]},
        studentType : StudentTypes, extraCurricularUnits : UnitValues]

\* the context the route builds for a body naming one course taken with an A+
\* and nothing else: a freshman with no units
ScenarioContext ==
  [courseCodes |-> Arr(<<"CS204">>),
   grades |-> [code \in Codes |-> IF code = "CS204" THEN "A+" ELSE NoGrade],
   studentType |-> Str(Freshman), extraCurricularUnits |-> Num(0)]

\* every request body
Contexts == ContextsOver(CourseCodeValues) \cup {ScenarioContext}
\* contexts a rule can be handed: courseCodes an array, or omitted (ctx.courseCodes || [])
RuleContexts == ContextsOver(CourseCodeArrays \cup {Undefined})

\* ctx.grades?.[code]
GradeOf(ctx, code) ==
  IF code \in DOMAIN ctx.grades /\ ctx.grades[code] /= NoGrade
  THEN Str(ctx.grades[code]) ELSE Undefined

\* ctx.courseCodes || []
CodesOrEmpty(ctx) == OrElse(ctx.courseCodes, Arr(<<>>))

\* ------------------------------------------------------------------- state
VARIABLES
  master,     \* rows of data/courses_master.csv as loaded into both course stores
  store,      \* "up" or "down": whether Firestore answers or its reads throw
  pc,         \* "idle" or "returned": whether the last call's outcome is still held
  op,         \* the operation last called
  subject,    \* the Rule or RuleGroup it evaluated
  ctx,        \* the context it was called with
  outcome,    \* its completion: returned value or thrown error, with its call trace
  promises,   \* the promises it created: key -> pending / fulfilled with a value
  missing,    \* what extractMissingItems returned for the held Result tree
  again,      \* the outcome of evaluating the same subject with the same context once more
  other,      \* a second evaluation of the same subject, started while the first is held
  printed,    \* what formatResult returned for the held Result tree
  db,         \* the timetables and users collections
  running,    \* each client's model call in progress: its position and its locals
  log         \* the model calls that have completed, with what they reported

engineVars ==
  <<master, store, pc, op, subject, ctx, outcome, promises, missing, again, other, printed>>
modelVars == <<db, running, log>>
vars == <<engineVars, modelVars>>

\* --------------------------------------------------- courses_master records
\* one CSV row / Firestore document; exists = FALSE: no row for the code
Row(credit, type, stage, req) ==
  [exists |-> TRUE, credit |-> credit, type |-> type, stage |-> stage, is_required |-> req]
NoRow == [exists |-> FALSE, credit |-> 0, type |-> "", stage |-> "BASIC", is_required |-> FALSE]

\* rows as migrateToFirebase / loadCoursesFromCSV write them:
\* credit parseInt(..) || 0, type '' when unknown, stage defaulting to BASIC
Rows ==
  {NoRow,
   Row(3, "MAJOR", "BASIC", TRUE),
   Row(21, "MAJOR", "ADVANCED", TRUE),
   Row(33, "LIBERAL", "BASIC", FALSE)}

\* a record with no credit, type, stage or is_required field
Malformed == Row(0, "", "", FALSE)

\* document ids in the order a collection query returns them
CodeOrder == <<"CS204", "X101">>

\* the course object FirebaseMasterModel builds from a document
MasterCourse(code) ==
  LET data == master[code]
  IN [courseCode |-> code,
      credit |-> IF data.credit /= 0 THEN data.credit ELSE 0,
      type |-> data.type,
      stage |-> IF data.stage /= "" THEN data.stage ELSE "BASIC",
      isRequired |-> data.is_required,
      isMajor |-> data.type = "MAJOR",
      isLiberal |-> data.type = "LIBERAL",
      isBasicMajor |-> data.type = "MAJOR" /\ data.stage = "BASIC",
      isAdvancedMajor |-> data.type = "MAJOR" /\ data.stage = "ADVANCED"]

\* FirebaseMasterModel.getByCourseCodes: documents that exist, in request order;
\* a read that throws is caught, logged and answered with []
getByCourseCodes(courseCodes) ==
  IF courseCodes.t /= "array" \/ Len(courseCodes.a) = 0 THEN <<>>
  ELSE IF store = "down" THEN <<>>
  ELSE LET found == SelectSeq(courseCodes.a,
                              LAMBDA code : code \in DOMAIN master /\ master[code].exists)
       IN [i \in 1..Len(found) |-> MasterCourse(found[i])]

\* FirebaseMasterModel.getByCourseCode: a read that throws is answered with null
getByCourseCode(courseCode) ==
  IF store = "up" /\ courseCode \in DOMAIN master /\ master[courseCode].exists
  THEN Obj(MasterCourse(courseCode)) ELSE [t |-> "null"]

\* FirebaseMasterModel.getRequiredCourses: where('is_required', '==', true);
\* a query that throws is caught, logged and answered with []
getRequiredCourses ==
  LET flagged(code) == master[code].exists /\ master[code].is_required
      pick[i \in 0..Len(CodeOrder)] ==
        IF i = 0 THEN <<>>
        ELSE IF flagged(CodeOrder[i])
             THEN Append(pick[i - 1], [courseCode |-> CodeOrder[i], courseName |-> CodeOrder[i]])
             ELSE pick[i - 1]
  IN IF store = "down" THEN <<>> ELSE pick[Len(CodeOrder)]

\* the Course object CourseDatabase.loadFromCSV builds from a row
Course(code) ==
  LET data == master[code]
  IN [courseCode |-> code,
      credit |-> data.credit,
      type |-> data.type,
      stage |-> IF data.stage /= "" THEN data.stage ELSE "BASIC",
      isRequired |-> data.is_required]

\* CourseDatabase.getCourse
getCourse(courseCode) ==
  IF courseCode \in DOMAIN master /\ master[courseCode].exists
  THEN Obj(Course(courseCode)) ELSE [t |-> "null"]

\* CourseDatabase.getCourses: map getCourse, drop the nulls
getCourses(courseCodes) ==
  LET found == SelectSeq(courseCodes, LAMBDA code : getCourse(code).t /= "null")
  IN [i \in 1..Len(found) |-> getCourse(found[i]).o]

\* names bound in ruleEngine.js by its import statement
ImportedNames == {"getFirebaseMasterModel"}

\* ------------------------------------------------------- Rule and RuleGroup
\* new Rule({ id, type, required, evaluator, message }); evaluator and message
\* name the function the rule was built with
Rule(id, type, required, evaluator, message) ==
  [node |-> "Rule", id |-> id, type |-> type, required |-> required,
   evaluator |-> evaluator, message |-> message]

\* new RuleGroup({ id, logic, children, description })
RuleGroup(id, logic, children, description) ==
  [node |-> "RuleGroup", id |-> id, logic |-> logic, children |-> children,
   description |-> description]

\* the key of the promise an async function call creates
Key(fn, of) == [fn |-> fn, of |-> of]

\* a rendered message: the template's label, whether the "met" or the "short"
\* wording was chosen, and the numbers interpolated into it
Text(label, met, current, required, short) ==
  [t |-> "text", label |-> label, met |-> met, current |-> current,
   required |-> required, short |-> short]

\* the message template shared by the four credit rules
creditMessage(label, passed, current, required) ==
  IF Truthy(passed)
  THEN Text(label, TRUE, current, required, Undefined)
  ELSE Text(label, FALSE, current, required, Minus(required, current))

RECURSIVE SumCredit(_)
SumCredit(courses) ==
  IF Len(courses) = 0 THEN Num(0)
  ELSE Plus(SumCredit(SubSeq(courses, 1, Len(courses) - 1)),
            Num(courses[Len(courses)].credit))

\* totalCreditRule: evaluator
totalCreditRule_evaluator(c, required) ==
  IF "getCourseDB" \notin ImportedNames
  THEN Throw("ReferenceError", <<>>)
  ELSE LET courses == getCourses(CodesOrEmpty(c).a)
           counted == SelectSeq(courses, LAMBDA k : GradeOf(c, k.courseCode) /= Str("F"))
           current == SumCredit(counted)
       IN Return(Obj([passed |-> Bool(GreaterEq(current, required)), current |-> current]),
                 <<Ev("provider", "getCourses")>>)

\* what the async credit evaluators compute once getByCourseCodes has answered;
\* classifier names the helper method of the course object the filter calls
creditSum(c, required, classifier) ==
  LET courses == getByCourseCodes(CodesOrEmpty(c))
      counted == SelectSeq(courses,
                           LAMBDA k : k[classifier] /\ GradeOf(c, k.courseCode) /= Str("F"))
      current == SumCredit(counted)
  IN Obj([passed |-> Bool(GreaterEq(current, required)), current |-> current])

\* majorBasicRule: value its async evaluator resolves to
majorBasicRule_resolved(c, required) ==
  creditSum(c, required, "isBasicMajor")

\* majorAdvancedRule: value its async evaluator resolves to
majorAdvancedRule_resolved(c, required) ==
  creditSum(c, required, "isAdvancedMajor")

\* liberalTotalRule: value its async evaluator resolves to
liberalTotalRule_resolved(c, required) ==
  creditSum(c, required, "isLiberal")

\* an async evaluator called without await: it starts getByCourseCodes and
\* hands back its promise
asyncEvaluator(id) ==
  Return(PromiseOf(Key("evaluator", id)),
         <<Ev("provider", "getByCourseCodes"), Ev("async", Key("evaluator", id))>>)

\* mutant: an 'F' grade still counts as taken
requiredCourseRule_evaluator_ignoresGrade(c, code) ==
  LET taken == CodesOrEmpty(c)
      passed == \E i \in 1..Len(taken.a) : Str(taken.a[i]) = code
  IN Return(Obj([passed |-> Bool(passed), current |-> Num(IF passed THEN 1 ELSE 0)]), <<>>)

\* requiredCourseRule: evaluator
requiredCourseRule_evaluator(c, code) ==
  LET taken == CodesOrEmpty(c)
      passed == (\E i \in 1..Len(taken.a) : Str(taken.a[i]) = code)
                /\ GradeOf(c, code.s) /= Str("F")
  IN Return(Obj([passed |-> Bool(passed), current |-> Num(IF passed THEN 1 ELSE 0)]), <<>>)

\* requiredCourseRule: value its async message resolves to
requiredCourseRule_message(courseCode, passed) ==
  LET course == getByCourseCode(courseCode)
      displayName == IF course.t = "object" THEN course.o.courseCode ELSE courseCode
  IN Text(displayName, Truthy(passed), Undefined, Undefined, Undefined)

\* mutant: transfer students get no reduced threshold
extraCurricularRule_evaluator_noTransferThreshold(c, required) ==
  LET current == OrElse(c.extraCurricularUnits, Num(0))
  IN Return(Obj([passed |-> Bool(GreaterEq(current, required)), current |-> current]), <<>>)

\* extraCurricularRule: evaluator
extraCurricularRule_evaluator(c, required) ==
  LET actualRequired == IF c.studentType = Str(TransferStudent) THEN Num(35) ELSE required
      current == OrElse(c.extraCurricularUnits, Num(0))
  IN Return(Obj([passed |-> Bool(GreaterEq(current, actualRequired)), current |-> current]), <<>>)

\* extraCurricularRule: message
extraCurricularRule_message(passed, current, required) ==
  LET actualRequired == IF required = Num(70)
                        THEN (IF LessThan(current, Num(35)) THEN Num(35) ELSE Num(70))
                        ELSE required
  IN IF Truthy(passed)
     THEN Text("EXTRA", TRUE, current, actualRequired, Undefined)
     ELSE Text("EXTRA", FALSE, current, actualRequired, Minus(actualRequired, current))

\* this.evaluator(context, this.required)
CallEvaluator(rule, c) ==
  CASE rule.evaluator = "totalCreditRule" -> totalCreditRule_evaluator(c, rule.required)
    [] rule.evaluator = "requiredCourseRule" -> requiredCourseRule_evaluator(c, rule.required)
    [] rule.evaluator = "extraCurricularRule" -> extraCurricularRule_evaluator(c, rule.required)
    [] rule.evaluator = "stubPass" -> Return(Obj([passed |-> Bool(TRUE), current |-> Num(1)]), <<>>)
    [] rule.evaluator = "stubFail" -> Return(Obj([passed |-> Bool(FALSE), current |-> Num(0)]), <<>>)
    [] rule.evaluator = "stubCredit" ->
         Return(Obj([passed |-> Bool(GreaterEq(rule.earned, rule.required)),
                     current |-> rule.earned]), <<>>)
    [] OTHER -> asyncEvaluator(rule.id)

\* this.message({ passed, current, required })
CallMessage(rule, passed, current) ==
  CASE rule.message = "totalCreditRule" ->
         Return(creditMessage("TOTAL", passed, current, rule.required), <<>>)
    [] rule.message = "majorBasicRule" ->
         Return(creditMessage("MAJOR_BASIC", passed, current, rule.required), <<>>)
    [] rule.message = "majorAdvancedRule" ->
         Return(creditMessage("MAJOR_ADV", passed, current, rule.required), <<>>)
    [] rule.message = "liberalTotalRule" ->
         Return(creditMessage("LIBERAL_TOTAL", passed, current, rule.required), <<>>)
    [] rule.message = "requiredCourseRule" ->
         Return(PromiseOf(Key("message", rule.id)),
                <<Ev("provider", "getByCourseCode"), Ev("async", Key("message", rule.id))>>)
    [] rule.message = "extraCurricularRule" ->
         Return(extraCurricularRule_message(passed, current, rule.required), <<>>)
    [] OTHER -> Return(Text("STUB", Truthy(passed), current, rule.required, Undefined), <<>>)

\* mutant: remaining is the plain difference, whatever passed says
Rule_result_remainingUnclamped(rule, e, m) ==
  Return([id |-> rule.id,
          type |-> rule.type,
          passed |-> Destructure(e.val, "passed"),
          required |-> rule.required,
          current |-> Destructure(e.val, "current"),
          remaining |-> Minus(rule.required, Destructure(e.val, "current")),
          message |-> m.val],
         <<Ev("evaluate", rule.id)>> \o e.trace \o m.trace)

\* Rule.evaluate, once the evaluator has answered with e and the message with m
Rule_result(rule, e, m) ==
  Return([id |-> rule.id,
          type |-> rule.type,
          passed |-> Destructure(e.val, "passed"),
          required |-> rule.required,
          current |-> Destructure(e.val, "current"),
          remaining |-> IF Truthy(Destructure(e.val, "passed")) THEN Num(0)
                        ELSE MathMax(Num(0),
                                     Minus(rule.required, Destructure(e.val, "current"))),
          message |-> m.val],
         <<Ev("evaluate", rule.id)>> \o e.trace \o m.trace)

\* Rule.evaluate, once the evaluator has answered with e (or thrown)
Rule_afterEvaluator(rule, e) ==
  IF ~e.ok THEN Throw(e.err, <<Ev("evaluate", rule.id)>> \o e.trace)
  ELSE Rule_result(rule, e,
                   CallMessage(rule, Destructure(e.val, "passed"),
                               Destructure(e.val, "current")))

\* mutant: a rule remembers that it was evaluated and answers differently after
Rule_evaluate_remembersCall(rule, c) ==
  IF pc = "returned" THEN Throw("AlreadyEvaluated", <<Ev("evaluate", rule.id)>>)
  ELSE Rule_afterEvaluator(rule, CallEvaluator(rule, c))

\* Rule.evaluate
Rule_evaluate(rule, c) == Rule_afterEvaluator(rule, CallEvaluator(rule, c))

\* results.every(r => r.passed)
RECURSIVE every(_)
every(results) ==
  IF Len(results) = 0 THEN TRUE
  ELSE IF ~Truthy(Head(results).passed) THEN FALSE
  ELSE every(Tail(results))

\* results.some(r => r.passed)
RECURSIVE some(_)
some(results) ==
  IF Len(results) = 0 THEN FALSE
  ELSE IF Truthy(Head(results).passed) THEN TRUE
  ELSE some(Tail(results))

\* mutant: an AND over no results is false
aggregate_emptyFails(logic, results) ==
  IF logic = LogicType.AND THEN Len(results) > 0 /\ every(results) ELSE some(results)

\* mutant: the logic field is ignored and every group aggregates as AND
aggregate_alwaysEvery(logic, results) == every(results)

\* the aggregation in RuleGroup.evaluate
aggregate(logic, results) ==
  IF logic = LogicType.AND THEN every(results) ELSE some(results)

\* child.evaluate(context): Rule or RuleGroup by dynamic dispatch; a child that
\* is neither has no evaluate method
RECURSIVE evaluate(_, _)

\* one step of children.map: the results so far (or the throw that ended the
\* map) and the next child's completion
mapStep(sofar, r) ==
  IF ~sofar.ok THEN sofar
  ELSE IF ~r.ok THEN Throw(r.err, sofar.trace \o r.trace)
  ELSE Return(Append(sofar.val, r.val), sofar.trace \o r.trace)

\* mutant: the map stops at the first child that does not pass
mapEvaluate_stopsAtFailure(children, c, tr) ==
  LET upTo[i \in 0..Len(children)] ==
        IF i = 0 THEN Return(<<>>, tr)
        ELSE IF i > 1 /\ upTo[i - 1].ok
                /\ ~Truthy(upTo[i - 1].val[Len(upTo[i - 1].val)].passed)
             THEN upTo[i - 1]
             ELSE mapStep(upTo[i - 1], evaluate(children[i], c))
  IN upTo[Len(children)]

\* this.children.map(child => child.evaluate(context)), after the trace tr
mapEvaluate(children, c, tr) ==
  LET upTo[i \in 0..Len(children)] ==
        IF i = 0 THEN Return(<<>>, tr)
        ELSE mapStep(upTo[i - 1], evaluate(children[i], c))
  IN upTo[Len(children)]

\* RuleGroup.evaluate, once the children are mapped to m (or one has thrown)
RuleGroup_result(group, m) ==
  IF ~m.ok THEN m
  ELSE Return([id |-> group.id,
               passed |-> Bool(aggregate(group.logic, m.val)),
               logic |-> group.logic,
               description |-> group.description,
               results |-> m.val],
              m.trace)

\* RuleGroup.evaluate
RuleGroup_evaluate(group, c) ==
  RuleGroup_result(group, mapEvaluate(group.children, c, <<Ev("evaluate", group.id)>>))

evaluate(node, c) ==
  IF "node" \notin DOMAIN node THEN Throw("TypeError", <<>>)
  ELSE IF node.node = "Rule" THEN Rule_evaluate(node, c)
  ELSE RuleGroup_evaluate(node, c)

\* ------------------------------------------------------ the requirement tree
totalCreditRule ==
  Rule("TOTAL_130", RuleType.TOTAL_CREDIT, Num(130), "totalCreditRule", "totalCreditRule")

majorBasicRule ==
  Rule("MAJOR_BASIC_51", RuleType.MAJOR_BASIC_CREDIT, Num(51), "majorBasicRule", "majorBasicRule")

majorAdvancedRule ==
  Rule("MAJOR_ADV_21", RuleType.MAJOR_ADVANCED_CREDIT, Num(21),
       "majorAdvancedRule", "majorAdvancedRule")

majorRuleGroup ==
  RuleGroup("MAJOR", LogicType.AND, <<majorBasicRule, majorAdvancedRule>>, "MAJOR")

liberalTotalRule ==
  Rule("LIBERAL_TOTAL_33", RuleType.LIBERAL_TOTAL_CREDIT, Num(33),
       "liberalTotalRule", "liberalTotalRule")

requiredBasicLiberalGroup ==
  RuleGroup("REQUIRED_BASIC_LIBERAL", LogicType.AND, <<>>, "REQUIRED_BASIC_LIBERAL")

liberalRuleGroup ==
  RuleGroup("LIBERAL", LogicType.AND, <<liberalTotalRule, requiredBasicLiberalGroup>>, "LIBERAL")

requiredCourseRule(courseCode, name) ==
  Rule("REQ_" \o courseCode, RuleType.REQUIRED_COURSE, Str(courseCode),
       "requiredCourseRule", "requiredCourseRule")

extraCurricularRule ==
  Rule("EXTRA_CURRICULAR_70", RuleType.EXTRA_CURRICULAR, Num(70),
       "extraCurricularRule", "extraCurricularRule")

\* createRequiredCourseGroup: the RuleGroup its promise resolves to
createRequiredCourseGroup_resolved ==
  LET requiredCourses == getRequiredCourses
      children == [i \in 1..Len(requiredCourses) |->
                     requiredCourseRule(requiredCourses[i].courseCode,
                                        requiredCourses[i].courseName)]
  IN RuleGroup("REQUIRED_COURSES", LogicType.AND, children, "REQUIRED_COURSES")

\* createRequiredCourseGroup(): an async function; the call starts
\* getRequiredCourses and returns the promise of the group
createRequiredCourseGroup ==
  Return(PromiseOf(Key("createRequiredCourseGroup", "REQUIRED_COURSES")),
         <<Ev("provider", "getRequiredCourses"),
           Ev("async", Key("createRequiredCourseGroup", "REQUIRED_COURSES"))>>)

\* mutant: a build after the first one puts the required group last
createCSGraduationRuleTree_laterBuildDiffers ==
  Return(RuleGroup("ROOT", LogicType.AND,
                   IF pc = "idle"
                   THEN <<totalCreditRule, liberalRuleGroup, majorRuleGroup,
                          createRequiredCourseGroup.val, extraCurricularRule>>
                   ELSE <<totalCreditRule, liberalRuleGroup, majorRuleGroup,
                          extraCurricularRule, createRequiredCourseGroup.val>>,
                   "ROOT"),
         createRequiredCourseGroup.trace \o <<Ev("build", "ROOT")>>)

\* createCSGraduationRuleTree
createCSGraduationRuleTree ==
  Return(RuleGroup("ROOT", LogicType.AND,
                   <<totalCreditRule, liberalRuleGroup, majorRuleGroup,
                     createRequiredCourseGroup.val, extraCurricularRule>>,
                   "ROOT"),
         createRequiredCourseGroup.trace \o <<Ev("build", "ROOT")>>)

\* ------------------------------------------------------------ Engine
\* extractMissingItems(result, items)
RECURSIVE extractMissingItems(_, _)
RECURSIVE extractEach(_, _)

\* result.results.forEach(child => extractMissingItems(child, items))
extractEach(results, items) ==
  IF Len(results) = 0 THEN items
  ELSE extractEach(Tail(results), extractMissingItems(Head(results), items))

\* mutant: a Rule-level Result is listed whether or not it passed
extractMissingItems_listsEveryRule(result, items) ==
  IF "type" \in DOMAIN result /\ result.type /= ""
  THEN Append(items, [id |-> result.id,
                      type |-> result.type,
                      rule |-> result.id,
                      message |-> result.message,
                      required |-> result.required,
                      current |-> result.current,
                      remaining |-> OrElse(result.remaining, Num(0))])
  ELSE IF "results" \in DOMAIN result
       THEN extractEach(result.results, items)
       ELSE items

extractMissingItems(result, items) ==
  IF "type" \in DOMAIN result /\ result.type /= ""
  THEN IF ~Truthy(result.passed)
       THEN Append(items, [id |-> result.id,
                           type |-> result.type,
                           rule |-> result.id,
                           message |-> result.message,
                           required |-> result.required,
                           current |-> result.current,
                           remaining |-> OrElse(result.remaining, Num(0))])
       ELSE items
  ELSE IF "results" \in DOMAIN result
       THEN extractEach(result.results, items)
       ELSE items

\* mutant: when the tree's evaluation throws, what there is so far is returned
evaluateGraduation_result_returnsPartial(root, result) ==
  IF ~result.ok
  THEN Return([passed |-> Undefined, tree |-> Undefined, missingItems |-> <<>>],
              root.trace \o result.trace)
  ELSE Return([passed |-> result.val.passed,
               tree |-> result.val,
               missingItems |-> extractMissingItems(result.val, <<>>)],
              root.trace \o result.trace)

\* evaluateGraduation, from root.evaluate(context) on
evaluateGraduation_result(root, result) ==
  IF ~result.ok THEN Throw(result.err, root.trace \o result.trace)
  ELSE Return([passed |-> result.val.passed,
               tree |-> result.val,
               missingItems |-> extractMissingItems(result.val, <<>>)],
              root.trace \o result.trace)

\* evaluateGraduation, from createCSGraduationRuleTree() on
evaluateGraduation_withTree(context, root) ==
  evaluateGraduation_result(root, evaluate(root.val, context))

\* mutant: the tree is built before courseCodes is validated
evaluateGraduation_validatesAfterBuild(context) ==
  IF ~Truthy(context.courseCodes) \/ context.courseCodes.t /= "array"
  THEN Throw("ValidationError", createCSGraduationRuleTree.trace)
  ELSE evaluateGraduation_withTree(context, createCSGraduationRuleTree)

\* evaluateGraduation
evaluateGraduation(context) ==
  IF ~Truthy(context.courseCodes) \/ context.courseCodes.t /= "array"
  THEN Throw("ValidationError", <<>>)
  ELSE evaluateGraduation_withTree(context, createCSGraduationRuleTree)

\* ------------------------------------------------------------ the route
\* one line of formatResult's output
Line(indent, result) ==
  [indent |-> indent, status |-> Truthy(result.passed),
   tag |-> IF "type" \in DOMAIN result THEN result.type ELSE result.id]

RECURSIVE formatLines(_, _)
\* formatResult on a Result node: its line, then its children's, one level deeper
formatLines(result, indent) ==
  IF "type" \in DOMAIN result /\ result.type /= "" THEN <<Line(indent, result)>>
  ELSE LET upTo[i \in 0..Len(result.results)] ==
             IF i = 0 THEN <<Line(indent, result)>>
             ELSE upTo[i - 1] \o formatLines(result.results[i], indent + 1)
       IN upTo[Len(result.results)]

\* formatResult(result): reading result.type of undefined throws
formatResult(result) ==
  IF result = Undefined THEN Throw("TypeError", <<>>)
  ELSE Return(formatLines(result, 0), <<>>)

\* what res.json / res.status(..).json sent
Response(status, success, data) == [status |-> status, success |-> success, data |-> data]

\* the context the handler builds from the body and its defaults
postCheck_context(body) ==
  [courseCodes |-> body.courseCodes,
   grades |-> body.grades,
   studentType |-> IF body.studentType = Undefined THEN Str(Freshman) ELSE body.studentType,
   extraCurricularUnits |-> IF body.extraCurricularUnits = Undefined THEN Num(0)
                            ELSE body.extraCurricularUnits]

\* const result = evaluateGraduation(context): the async function runs to its
\* end or its throw, and the caller holds its promise
postCheck_call(run) ==
  Return(PromiseOf(Key("evaluateGraduation", "")),
         <<Ev("call", "evaluateGraduation")>> \o run.trace)

\* the handler from res.json({ ... }) on: the properties are read off `result`
\* and formatResult(result.tree) is called before anything is sent; a throw
\* lands in the catch block
postCheck_send(result, formatted) ==
  IF ~formatted.ok
  THEN Return(Response(500, FALSE, Undefined), result.trace)
  ELSE Return(Response(200, TRUE,
                       [passed |-> Destructure(result.val, "passed"),
                        tree |-> Destructure(result.val, "tree"),
                        missingItems |-> Destructure(result.val, "missingItems"),
                        formatted |-> formatted.val]),
              result.trace)

\* the handler after validation
postCheck_respond(result) ==
  postCheck_send(result, formatResult(Destructure(result.val, "tree")))

\* mutant: the evaluation is started before the body is validated
postCheck_validatesAfterCall(body) ==
  IF ~Truthy(body.courseCodes) \/ body.courseCodes.t /= "array"
  THEN Return(Response(400, FALSE, Undefined),
              postCheck_call(evaluateGraduation(postCheck_context(body))).trace)
  ELSE postCheck_respond(postCheck_call(evaluateGraduation(postCheck_context(body))))

\* router.post('/check', ...)
postCheck(body) ==
  IF ~Truthy(body.courseCodes) \/ body.courseCodes.t /= "array"
  THEN Return(Response(400, FALSE, Undefined), <<>>)
  ELSE postCheck_respond(postCheck_call(evaluateGraduation(postCheck_context(body))))

\* ------------------------------------------------------------ callers' inputs
\* a context for trees of stub rules, which read nothing from it
EmptyContext ==
  [courseCodes |-> Arr(<<>>), grades |-> [code \in Codes |-> NoGrade],
   studentType |-> Undefined, extraCurricularUnits |-> Undefined]

\* a boolean-stub rule: new Rule({ evaluator: () => ({ passed: b, current }) })
StubRule(id, b) ==
  Rule(id, "STUB", Num(1), IF b THEN "stubPass" ELSE "stubFail", "stub")

\* a credit rule over a fixed sum:
\* new Rule({ type, required, evaluator: (ctx, required) => ({ passed: earned >= required, current: earned }) })
StubCreditRule(required, earned) ==
  Rule("CREDIT_STUB", RuleType.TOTAL_CREDIT, Num(required), "stubCredit", "totalCreditRule")
    @@ [earned |-> Num(earned)]

\* sums below, at and above the 130 credits of the total rule
StubCreditRules == {StubCreditRule(130, earned) : earned \in {0, 100, 129, 130, 140}}

StubIds == <<"S1", "S2", "S3", "S4">>
NestedIds == <<"N1", "N2", "N3", "N4">>
GroupIds == <<"G1", "G2", "G3", "G4">>

\* nested groups of stub rules only (one child fewer than the top level allows),
\* children named by position under the prefix
LeafGroups(id, prefix) ==
  {RuleGroup(id, logic, [i \in 1..Len(bs) |-> StubRule(prefix \o StubIds[i], bs[i])], "stubs") :
     logic \in {LogicType.AND, LogicType.OR}, bs \in SeqsUpTo(BOOLEAN, MaxChildren - 1)}

\* children at position i: a passing or failing stub, or a nested group of stubs
StubChildren(i) ==
  {StubRule(StubIds[i], b) : b \in BOOLEAN} \cup LeafGroups(GroupIds[i], NestedIds[i])

RECURSIVE ChildSeqs(_)
ChildSeqs(n) ==
  IF n = 0 THEN {<<>>}
  ELSE {Append(s, x) : s \in ChildSeqs(n - 1), x \in StubChildren(n)}

\* synthetic trees: an AND or OR group over up to MaxChildren stubs, one of
\* which may be a nested group
StubGroups ==
  {RuleGroup("G", logic, ch, "synthetic") :
     logic \in {LogicType.AND, LogicType.OR},
     ch \in {s \in UNION {ChildSeqs(n) : n \in 0..MaxChildren} :
              Cardinality({i \in 1..Len(s) : s[i].node = "RuleGroup"}) <= 1}}

\* the rules the engine builds
BuiltRules ==
  {totalCreditRule, majorBasicRule, majorAdvancedRule, liberalTotalRule, extraCurricularRule}
  \cup {requiredCourseRule(code, code) : code \in Codes}

\* the groups the engine builds; REQUIRED_COURSES as a caller gets it by
\* awaiting createRequiredCourseGroup()
BuiltGroups ==
  {majorRuleGroup, liberalRuleGroup, requiredBasicLiberalGroup,
   createRequiredCourseGroup_resolved, createCSGraduationRuleTree.val}

\* ------------------------------------------------------------------ promises
Pending == [state |-> "pending", value |-> Undefined]
Fulfilled(v) == [state |-> "fulfilled", value |-> v]

\* the promises a call created, all pending when it returns
Created(tr) ==
  LET keys == {tr[i].what : i \in {j \in 1..Len(tr) : tr[j].ev = "async"}}
  IN [k \in keys |-> Pending]

\* what the async function behind a promise resolves to
Resolution(key, c) ==
  CASE key.fn = "createRequiredCourseGroup" -> createRequiredCourseGroup_resolved
    [] key.fn = "message" ->
         LET code == CHOOSE k \in Codes : "REQ_" \o k = key.of
         IN requiredCourseRule_message(
              code, requiredCourseRule_evaluator(c, Str(code)).val.o.passed)
    [] key.of = "MAJOR_BASIC_51" -> majorBasicRule_resolved(c, majorBasicRule.required)
    [] key.of = "MAJOR_ADV_21" -> majorAdvancedRule_resolved(c, majorAdvancedRule.required)
    [] OTHER -> liberalTotalRule_resolved(c, liberalTotalRule.required)

\* ------------------------------------------------------------------- actions
NoOutcome == Return(Undefined, <<>>)
NoMissing == [done |-> FALSE, items |-> <<>>]
NoSubject == [node |-> "none"]
NoAgain == [done |-> FALSE, outcome |-> NoOutcome, missing |-> <<>>]
NoOther == [started |-> FALSE, ctx |-> EmptyContext, outcome |-> NoOutcome, promises |-> <<>>]
NoPrinted == [done |-> FALSE, out |-> NoOutcome]

\* --------------------------------------------- timetables and users (Firestore)
\* student ids that register
StudentIds == {"20201234", "20205678"}

\* the timetables collection, all documents of one (studentId, year, semester),
\* in the order a query returns them, and the users collection keyed by studentId
EmptyDb == [timetables |-> <<>>, users |-> [id \in StudentIds |-> "none"]]

\* clients whose requests the server handles concurrently
Clients == 1..MaxClients

Idle == [pc |-> "idle"]
NoCalls == [client \in Clients |-> Idle]

\* the catalogue behind a store that does not answer
DownMaster == [code \in Codes |-> Row(3, "MAJOR", "BASIC", TRUE)]

Init ==
  /\ master \in [Codes -> Rows \cup {Malformed}]
  /\ store \in {"up", "down"}
  \* no read reaches the rows of a store that is down: one catalogue stands for all
  /\ (store = "down" => master = DownMaster)
  /\ pc = "idle"
  /\ op = "none"
  /\ subject = NoSubject
  /\ ctx = EmptyContext
  /\ outcome = NoOutcome
  /\ promises = <<>>
  /\ missing = NoMissing
  /\ again = NoAgain
  /\ other = NoOther
  /\ printed = NoPrinted
  /\ db = EmptyDb
  /\ running = NoCalls
  /\ log = {}

Call(name, node, c, result) ==
  /\ pc' = "returned"
  /\ op' = name
  /\ subject' = node
  /\ ctx' = c
  /\ outcome' = result
  /\ promises' = Created(result.trace)
  /\ missing' = NoMissing
  /\ again' = NoAgain
  /\ other' = NoOther
  /\ printed' = NoPrinted
  /\ UNCHANGED <<master, store, modelVars>>

\* a caller runs evaluateGraduation(context)
EvaluateGraduation ==
  /\ pc = "idle"
  /\ \E c \in Contexts : Call("evaluateGraduation",
                             IF c.courseCodes.t = "array"
                             THEN createCSGraduationRuleTree.val ELSE NoSubject,
                             c, evaluateGraduation(c))

\* a caller evaluates one of the engine's rules
EvaluateRule ==
  /\ pc = "idle"
  /\ \E rule \in BuiltRules, c \in RuleContexts :
       Call("Rule.evaluate", rule, c, Rule_evaluate(rule, c))

\* a caller evaluates one of the engine's groups
EvaluateGroup ==
  /\ pc = "idle"
  /\ \E group \in BuiltGroups, c \in RuleContexts :
       Call("RuleGroup.evaluate", group, c, RuleGroup_evaluate(group, c))

\* a test evaluates a credit rule over a fixed sum
EvaluateStubRule ==
  /\ pc = "idle"
  /\ \E rule \in StubCreditRules :
       Call("Rule.evaluate", rule, EmptyContext, Rule_evaluate(rule, EmptyContext))

\* a test evaluates a synthetic tree of stub rules
EvaluateStubGroup ==
  /\ pc = "idle"
  /\ \E group \in StubGroups :
       Call("RuleGroup.evaluate", group, EmptyContext, RuleGroup_evaluate(group, EmptyContext))

\* POST /api/graduation/check arrives with a body
PostCheck ==
  /\ pc = "idle"
  /\ \E body \in Contexts : Call("POST /check", NoSubject, body, postCheck(body))

\* the outcome of the same call made once more, the provider unchanged
Repeated ==
  IF op = "evaluateGraduation" THEN evaluateGraduation(ctx) ELSE evaluate(subject, ctx)

\* the missingItems list that goes with an outcome
MissingOf(o) ==
  IF ~o.ok THEN <<>>
  ELSE IF op = "evaluateGraduation" THEN o.val.missingItems
  ELSE extractMissingItems(o.val, <<>>)

\* the caller evaluates the same subject against the same context a second time
EvaluateAgain ==
  /\ pc = "returned"
  /\ op \in {"evaluateGraduation", "Rule.evaluate", "RuleGroup.evaluate"}
  /\ ~other.started
  /\ ~printed.done
  /\ ~again.done
  /\ again' = [done |-> TRUE, outcome |-> Repeated, missing |-> MissingOf(Repeated)]
  /\ UNCHANGED <<master, store, pc, op, subject, ctx, outcome, promises, missing, other,
                 printed, modelVars>>

\* a caller builds the requirement tree
BuildTree ==
  /\ pc = "idle"
  /\ Call("createCSGraduationRuleTree", NoSubject, EmptyContext, createCSGraduationRuleTree)

\* the tree is built a second time, the provider unchanged
BuildOther ==
  /\ pc = "returned"
  /\ op = "createCSGraduationRuleTree"
  /\ ~other.started
  /\ other' = [started |-> TRUE, ctx |-> EmptyContext, outcome |-> createCSGraduationRuleTree,
               promises |-> Created(createCSGraduationRuleTree.trace)]
  /\ UNCHANGED <<master, store, pc, op, subject, ctx, outcome, promises, missing, again,
                 printed, modelVars>>

\* contexts of students evaluated at the same time: one course taken, both
\* courses taken with one failed, and a transfer student with 40 units
InterleavedContexts ==
  {[EmptyContext EXCEPT !.courseCodes = Arr(<<"CS204">>)],
   [EmptyContext EXCEPT !.courseCodes = Arr(<<"X101", "CS204">>),
                        !.grades = [code \in Codes |-> IF code = "CS204" THEN "F" ELSE "A+"]],
   [EmptyContext EXCEPT !.courseCodes = Arr(<<"CS204">>),
                        !.studentType = Str(TransferStudent),
                        !.extraCurricularUnits = Num(40)]}

\* a second caller evaluates the same Rule or RuleGroup object with its own
\* context while the first evaluation's promises may still be pending
EvaluateOther ==
  /\ pc = "returned"
  /\ op \in {"Rule.evaluate", "RuleGroup.evaluate"}
  /\ ctx \in InterleavedContexts
  /\ ~other.started
  /\ ~missing.done
  /\ ~again.done
  /\ \E c \in InterleavedContexts \ {ctx} :
       other' = [started |-> TRUE, ctx |-> c, outcome |-> evaluate(subject, c),
                 promises |-> Created(evaluate(subject, c).trace)]
  /\ UNCHANGED <<master, store, pc, op, subject, ctx, outcome, promises, missing, again,
                 printed, modelVars>>

\* mutant: the evaluators read the context of the latest evaluation of the rule
OtherResolution_sharedContext(key) == Resolution(key, ctx)

\* what a promise of the second evaluation resolves to: the async function
\* closed over the context it was called with
OtherResolution(key) == Resolution(key, other.ctx)

\* the store answers the second evaluation: one of its pending promises is fulfilled
SettleOther ==
  /\ pc = "returned"
  /\ other.started
  /\ \E key \in DOMAIN other.promises :
       /\ other.promises[key].state = "pending"
       /\ other' = [other EXCEPT !.promises[key] = Fulfilled(OtherResolution(key))]
  /\ UNCHANGED <<master, store, pc, op, subject, ctx, outcome, promises, missing, again,
                 printed, modelVars>>

\* the holder of a Result tree flattens it
ExtractMissingItems ==
  /\ pc = "returned"
  /\ op \in {"Rule.evaluate", "RuleGroup.evaluate"}
  /\ outcome.ok
  /\ ~other.started
  /\ ~missing.done
  /\ missing' = [done |-> TRUE, items |-> extractMissingItems(outcome.val, <<>>)]
  /\ UNCHANGED <<master, store, pc, op, subject, ctx, outcome, promises, again, other,
                 printed, modelVars>>

\* mutant: rendering the tree marks every node it prints as passed
FormatResult_rewritesPassed ==
  /\ pc = "returned"
  /\ op \in {"Rule.evaluate", "RuleGroup.evaluate"}
  /\ outcome.ok
  /\ missing.done
  /\ ~again.done
  /\ ~printed.done
  /\ printed' = [done |-> TRUE, out |-> formatResult(outcome.val)]
  /\ outcome' = [outcome EXCEPT !.val.passed = Bool(TRUE)]
  /\ UNCHANGED <<master, store, pc, op, subject, ctx, promises, missing, again, other,
                 modelVars>>

\* the holder of a Result tree and its missingItems renders the tree for diagnostics
FormatResult ==
  /\ pc = "returned"
  /\ op \in {"Rule.evaluate", "RuleGroup.evaluate"}
  /\ outcome.ok
  /\ missing.done
  /\ ~again.done
  /\ ~printed.done
  /\ printed' = [done |-> TRUE, out |-> formatResult(outcome.val)]
  /\ UNCHANGED <<master, store, pc, op, subject, ctx, outcome, promises, missing, again,
                 other, modelVars>>

\* the store answers: one pending promise is fulfilled
Settle ==
  /\ pc = "returned"
  /\ \E key \in DOMAIN promises :
       /\ promises[key].state = "pending"
       /\ promises' = [promises EXCEPT ![key] = Fulfilled(Resolution(key, ctx))]
  /\ UNCHANGED <<master, store, pc, op, subject, ctx, outcome, missing, again, other,
                 printed, modelVars>>

\* the caller is done with the outcome
Finish ==
  /\ pc = "returned"
  /\ pc' = "idle"
  /\ op' = "none"
  /\ subject' = NoSubject
  /\ ctx' = EmptyContext
  /\ outcome' = NoOutcome
  /\ promises' = <<>>
  /\ missing' = NoMissing
  /\ again' = NoAgain
  /\ other' = NoOther
  /\ printed' = NoPrinted
  /\ UNCHANGED <<master, store, modelVars>>

Next ==
  \/ EvaluateGraduation
  \/ EvaluateRule
  \/ EvaluateGroup
  \/ EvaluateStubRule
  \/ EvaluateStubGroup
  \/ PostCheck
  \/ EvaluateAgain
  \/ EvaluateOther
  \/ BuildTree
  \/ BuildOther
  \/ SettleOther
  \/ ExtractMissingItems
  \/ FormatResult
  \/ Settle
  \/ Finish

\* the engine and the synthetic stub trees against every courses_master snapshot
Spec == Init /\ [][Next]_vars

\* ------------------------------------- models/timetableModel.js (Firestore models)
\* Each action runs one handler from one await to the next; the Firestore read or
\* write the handler awaited takes effect at the start of the action.

\* a timetables document of the (studentId, year, semester); courses by course_code
Doc(id, courses) == [id |-> id, courses |-> courses]

\* no document: what a query with an empty snapshot gives
NoDoc == Doc(0, <<>>)

\* passwordHash values of two different registrations
PasswordHashes == {"hashA", "hashB"}

\* courses a client sends with a whole timetable
SaveCourses == {<<>>} \cup {<<code>> : code \in Codes}

\* .where(studentId).where(year).where(semester).limit(1): the first document
\* in query order, or null
findByStudentAndSemester(timetables) ==
  IF Len(timetables) = 0 THEN NoDoc ELSE timetables[1]

\* timetable.courses.find(c => c.course_code === course.course_code)
existingCourse(courses, code) == \E i \in 1..Len(courses) : courses[i] = code

\* the collection after docRef.update({courses}) on the document with that id
update(timetables, id, courses) ==
  [i \in 1..Len(timetables) |->
     IF timetables[i].id = id THEN Doc(id, courses) ELSE timetables[i]]

\* the collection after collection.doc().set(...): the auto-generated id is new,
\* and sorts anywhere among the ids a query orders by
set(timetables, at, courses) ==
  LET doc == Doc(Len(timetables) + 1, courses)
  IN SubSeq(timetables, 1, at - 1) \o <<doc>> \o SubSeq(timetables, at, Len(timetables))

\* calls a client has completed
CallsOf(client) == Cardinality({e \in log : e.client = client})

\* what a completed call reported
Report(client, name, key, hash, ok) ==
  [client |-> client, n |-> CallsOf(client) + 1, op |-> name, key |-> key,
   hash |-> hash, ok |-> ok]

\* a client may start a call
MayCall(client) == running[client].pc = "idle" /\ CallsOf(client) < MaxCalls

\* TimetableModel.addCourse up to its await of findByStudentAndSemester
AddCourse(client, course) ==
  /\ MayCall(client)
  /\ running' = [running EXCEPT ![client] = [pc |-> "addCourse.find", course |-> course]]
  /\ UNCHANGED <<engineVars, db, log>>

\* addCourse after the find: create with [course], or the duplicate error, or
\* push and save; save runs up to its own await of findByStudentAndSemester
AddCourse_afterFind(client) ==
  /\ running[client].pc = "addCourse.find"
  /\ LET timetable == findByStudentAndSemester(db.timetables)
         course == running[client].course
     IN IF timetable = NoDoc
        THEN /\ running' = [running EXCEPT ![client] =
                  [pc |-> "save.find", op |-> "addCourse", course |-> course,
                   courses |-> <<course>>]]
             /\ log' = log
        ELSE IF existingCourse(timetable.courses, course)
        THEN /\ running' = [running EXCEPT ![client] = Idle]
             /\ log' = log \cup {Report(client, "addCourse", course, "", FALSE)}
        ELSE /\ running' = [running EXCEPT ![client] =
                  [pc |-> "save.find", op |-> "addCourse", course |-> course,
                   courses |-> Append(timetable.courses, course)]]
             /\ log' = log
  /\ UNCHANGED <<engineVars, db>>

\* TimetableModel.save called by a route, up to its await of findByStudentAndSemester
Save(client, courses) ==
  /\ MayCall(client)
  /\ running' = [running EXCEPT ![client] =
       [pc |-> "save.find", op |-> "save", course |-> "", courses |-> courses]]
  /\ UNCHANGED <<engineVars, db, log>>

\* save after the find: update of the existing document, or set of a new one, awaited
Save_afterFind(client) ==
  /\ running[client].pc = "save.find"
  /\ LET existing == findByStudentAndSemester(db.timetables)
     IN running' = [running EXCEPT ![client] =
          [pc |-> IF existing /= NoDoc THEN "save.update" ELSE "save.set",
           op |-> running[client].op, course |-> running[client].course,
           courses |-> running[client].courses, id |-> existing.id]]
  /\ UNCHANGED <<engineVars, db, log>>

\* the awaited write lands and save returns the timetable
Save_afterWrite(client) ==
  /\ running[client].pc \in {"save.update", "save.set"}
  /\ IF running[client].pc = "save.update"
     THEN db' = [db EXCEPT !.timetables =
                   update(db.timetables, running[client].id, running[client].courses)]
     ELSE \E at \in 1..(Len(db.timetables) + 1) :
            db' = [db EXCEPT !.timetables =
                     set(db.timetables, at, running[client].courses)]
  /\ log' = log \cup {Report(client, running[client].op, running[client].course, "", TRUE)}
  /\ running' = [running EXCEPT ![client] = Idle]
  /\ UNCHANGED engineVars

\* POST /register up to its await of isStudentIdExists
Register(client, studentId, passwordHash) ==
  /\ MayCall(client)
  /\ running' = [running EXCEPT ![client] =
       [pc |-> "register.exists", studentId |-> studentId, passwordHash |-> passwordHash]]
  /\ UNCHANGED <<engineVars, db, log>>

\* the route after isStudentIdExists: 409, or UserModel.create up to its await
\* of findByStudentId
Register_afterExists(client) ==
  /\ running[client].pc = "register.exists"
  /\ IF db.users[running[client].studentId] /= "none"
     THEN /\ running' = [running EXCEPT ![client] = Idle]
          /\ log' = log \cup {Report(client, "register", running[client].studentId,
                                     running[client].passwordHash, FALSE)}
     ELSE /\ running' = [running EXCEPT ![client].pc = "create.find"]
          /\ log' = log
  /\ UNCHANGED <<engineVars, db>>

\* UserModel.create up to its await of findByStudentId
Create(client, studentId, passwordHash) ==
  /\ MayCall(client)
  /\ running' = [running EXCEPT ![client] =
       [pc |-> "create.find", studentId |-> studentId, passwordHash |-> passwordHash]]
  /\ UNCHANGED <<engineVars, db, log>>

\* create after the find: the already-exists error, or docRef.set awaited
Create_afterFind(client) ==
  /\ running[client].pc = "create.find"
  /\ IF db.users[running[client].studentId] /= "none"
     THEN /\ running' = [running EXCEPT ![client] = Idle]
          /\ log' = log \cup {Report(client, "create", running[client].studentId,
                                     running[client].passwordHash, FALSE)}
     ELSE /\ running' = [running EXCEPT ![client].pc = "create.set"]
          /\ log' = log
  /\ UNCHANGED <<engineVars, db>>

\* doc(studentId).set(user.toFirestore()) lands and create returns the user
Create_afterSet(client) ==
  /\ running[client].pc = "create.set"
  /\ db' = [db EXCEPT !.users[running[client].studentId] = running[client].passwordHash]
  /\ log' = log \cup {Report(client, "create", running[client].studentId,
                             running[client].passwordHash, TRUE)}
  /\ running' = [running EXCEPT ![client] = Idle]
  /\ UNCHANGED engineVars

\* no evaluation in progress; the timetable is absent or was saved with no course
InitModels ==
  /\ master = DownMaster
  /\ store = "up"
  /\ pc = "idle"
  /\ op = "none"
  /\ subject = NoSubject
  /\ ctx = EmptyContext
  /\ outcome = NoOutcome
  /\ promises = <<>>
  /\ missing = NoMissing
  /\ again = NoAgain
  /\ other = NoOther
  /\ printed = NoPrinted
  /\ db \in {EmptyDb, [EmptyDb EXCEPT !.timetables = <<Doc(1, <<>>)>>]}
  /\ running = NoCalls
  /\ log = {}

NextModels ==
  \/ \E client \in Clients, course \in Codes : AddCourse(client, course)
  \/ \E client \in Clients : AddCourse_afterFind(client)
  \/ \E client \in Clients, courses \in SaveCourses : Save(client, courses)
  \/ \E client \in Clients : Save_afterFind(client)
  \/ \E client \in Clients : Save_afterWrite(client)
  \/ \E client \in Clients, studentId \in StudentIds, passwordHash \in PasswordHashes :
       Register(client, studentId, passwordHash)
  \/ \E client \in Clients : Register_afterExists(client)
  \/ \E client \in Clients, studentId \in StudentIds, passwordHash \in PasswordHashes :
       Create(client, studentId, passwordHash)
  \/ \E client \in Clients : Create_afterFind(client)
  \/ \E client \in Clients : Create_afterSet(client)

\* concurrent requests against the timetables and users collections
SpecModels == InitModels /\ [][NextModels]_vars

\* ------------------------------------------------- reading the held outcome
\* the call returned a Result tree that is still held
HasResult ==
  pc = "returned" /\ op \in {"Rule.evaluate", "RuleGroup.evaluate"} /\ outcome.ok

IsRuleResult(result) == "type" \in DOMAIN result

RECURSIVE RuleResults(_)
RECURSIVE RuleResultsOfAll(_)
\* the Rule-level Results of a Result tree, depth first in declared order
RuleResults(result) ==
  IF IsRuleResult(result) THEN <<result>> ELSE RuleResultsOfAll(result.results)
RuleResultsOfAll(results) ==
  IF Len(results) = 0 THEN <<>>
  ELSE RuleResults(Head(results)) \o RuleResultsOfAll(Tail(results))

RECURSIVE GroupResults(_)
\* the group-level Results of a Result tree
GroupResults(result) ==
  IF IsRuleResult(result) THEN {}
  ELSE {result} \cup UNION {GroupResults(result.results[i]) : i \in 1..Len(result.results)}

RECURSIVE PreOrderIds(_)
RECURSIVE PreOrderIdsOfAll(_)
\* ids of the evaluatable nodes of a requirement tree, parents before children
PreOrderIds(node) ==
  IF "node" \notin DOMAIN node THEN <<>>
  ELSE IF node.node = "Rule" THEN <<node.id>>
  ELSE IF node.node = "RuleGroup" THEN <<node.id>> \o PreOrderIdsOfAll(node.children)
  ELSE <<>>
PreOrderIdsOfAll(children) ==
  IF Len(children) = 0 THEN <<>>
  ELSE PreOrderIds(Head(children)) \o PreOrderIdsOfAll(Tail(children))

\* ids of the nodes whose evaluate was entered, in call order
Evaluated(tr) ==
  LET calls == SelectSeq(tr, LAMBDA e : e.ev = "evaluate")
  IN [i \in 1..Len(calls) |-> calls[i].what]

\* provider operations a call invoked
ProviderCalls(tr) == SelectSeq(tr, LAMBDA e : e.ev = "provider")

IsPrefix(a, b) == Len(a) <= Len(b) /\ SubSeq(b, 1, Len(a)) = a

RECURSIVE Mirrors(_, _)
\* the Result tree has one Result per node of the requirement tree, same ids, same order
Mirrors(node, result) ==
  /\ result.id = node.id
  /\ IF node.node = "Rule" THEN IsRuleResult(result)
     ELSE /\ ~IsRuleResult(result)
          /\ Len(result.results) = Len(node.children)
          /\ \A i \in 1..Len(node.children) : Mirrors(node.children[i], result.results[i])

\* the courseCodes array of the held context (empty when omitted)
Taken == CodesOrEmpty(ctx).a
IsTaken(code) == \E i \in 1..Len(Taken) : Taken[i] = code
FailedGrade(code) == ctx.grades[code] = "F"

\* how the provider's row classifies a course
Classified(row, class) ==
  CASE class = "BASIC" -> row.type = "MAJOR" /\ row.stage = "BASIC"
    [] class = "ADVANCED" -> row.type = "MAJOR" /\ row.stage = "ADVANCED"
    [] class = "LIBERAL" -> row.type = "LIBERAL"
    [] OTHER -> TRUE

\* sum of credit over the positions of courseCodes whose course the provider
\* knows, whose grade is not 'F' and which is of the class ("ANY": all of them)
CreditOver(class) ==
  LET upTo[n \in 0..Len(Taken)] ==
        IF n = 0 THEN 0
        ELSE upTo[n - 1]
             + (IF /\ master[Taken[n]].exists
                   /\ ~FailedGrade(Taken[n])
                   /\ Classified(master[Taken[n]], class)
                THEN master[Taken[n]].credit ELSE 0)
  IN upTo[Len(Taken)]

\* ------------------------------------------------------------------- claims

\* C1: for every context whose courseCodes is an array, evaluateGraduation
\* completes without raising and returns {passed, tree, missingItems} with tree
\* the Result of the ROOT group and passed equal to tree.passed.
C1_EvaluateGraduationReturns ==
  (pc = "returned" /\ op = "evaluateGraduation" /\ ctx.courseCodes.t = "array")
    => /\ outcome.ok
       /\ outcome.val.tree.id = "ROOT"
       /\ outcome.val.passed = outcome.val.tree.passed

\* C2: the passed field of every group Result equals the conjunction of its
\* children's passed under AND and their disjunction under OR.
C2_GroupPassedIsConjunctionOrDisjunction ==
  HasResult =>
    \A g \in GroupResults(outcome.val) :
      g.passed = Bool(IF g.logic = LogicType.AND
                      THEN \A i \in 1..Len(g.results) : Truthy(g.results[i].passed)
                      ELSE \E i \in 1..Len(g.results) : Truthy(g.results[i].passed))

\* an OR group passed although its first child failed, and an AND group nested
\* in it failed although its first child passed
C2_Witness ==
  /\ HasResult
  /\ subject.node = "RuleGroup"
  /\ subject.logic = LogicType.OR
  /\ Len(outcome.val.results) = 2
  /\ outcome.val.results[1].passed = Bool(FALSE)
  /\ outcome.val.results[2].passed = Bool(TRUE)
  /\ outcome.val.passed = Bool(TRUE)

\* C3: RuleGroup.evaluate never short-circuits: every node of the tree is
\* evaluated exactly once, parents before children in declared order, and the
\* Result tree holds one Result per child in the children's order; an evaluation
\* that a child aborts by throwing has evaluated a prefix of that order.
C3_NoShortCircuit ==
  (pc = "returned" /\ subject.node = "RuleGroup")
    => IF outcome.ok
       THEN /\ Evaluated(outcome.trace) = PreOrderIds(subject)
            /\ Mirrors(subject, IF op = "evaluateGraduation" THEN outcome.val.tree
                                ELSE outcome.val)
       ELSE IsPrefix(Evaluated(outcome.trace), PreOrderIds(subject))

\* an AND group whose first child failed still evaluated its second child
C3_Witness ==
  /\ HasResult
  /\ subject.node = "RuleGroup"
  /\ subject.logic = LogicType.AND
  /\ Len(subject.children) = 2
  /\ outcome.val.results[1].passed = Bool(FALSE)
  /\ Len(outcome.val.results) = 2
  /\ Evaluated(outcome.trace)[Len(Evaluated(outcome.trace))] = subject.children[2].id

\* C4: missingItems holds exactly one entry for each Rule-level Result that did
\* not pass, in depth-first declared order, carrying that Result's id, type,
\* message, required and current, and nothing for groups or passing rules.
C4_MissingItemsAreTheFailingRules ==
  (pc = "returned" /\ missing.done) =>
    LET failing == SelectSeq(RuleResults(outcome.val), LAMBDA r : ~Truthy(r.passed))
    IN /\ Len(missing.items) = Len(failing)
       /\ \A i \in 1..Len(failing) :
            /\ missing.items[i].id = failing[i].id
            /\ missing.items[i].type = failing[i].type
            /\ missing.items[i].message = failing[i].message
            /\ missing.items[i].required = failing[i].required
            /\ missing.items[i].current = failing[i].current
            /\ missing.items[i].remaining = OrElse(failing[i].remaining, Num(0))

\* a tree with a passing rule followed by a nested group holding a failing rule
\* was flattened to the one entry of the failing rule
C4_Witness ==
  /\ pc = "returned"
  /\ missing.done
  /\ ~IsRuleResult(outcome.val)
  /\ Len(outcome.val.results) = 2
  /\ IsRuleResult(outcome.val.results[1])
  /\ outcome.val.results[1].passed = Bool(TRUE)
  /\ ~IsRuleResult(outcome.val.results[2])
  /\ Len(outcome.val.results[2].results) = 1
  /\ Len(missing.items) = 1
  /\ missing.items[1].id = outcome.val.results[2].results[1].id

\* C5: every Result an aggregation reads is completed: passed is a boolean and
\* current is a number, never a pending asynchronous value.
C5_ResultsAreCompleted ==
  HasResult =>
    \A i \in 1..Len(RuleResults(outcome.val)) :
      /\ IsBool(RuleResults(outcome.val)[i].passed)
      /\ IsNum(RuleResults(outcome.val)[i].current)

\* C6: with courseCodes absent or not an array evaluateGraduation fails with
\* the validation error before any tree is built, any provider operation is
\* invoked or any rule is evaluated.
C6_ValidationBeforeAnything ==
  (pc = "returned" /\ op = "evaluateGraduation" /\ ctx.courseCodes.t /= "array")
    => /\ ~outcome.ok
       /\ outcome.err = "ValidationError"
       /\ outcome.trace = <<>>
       /\ DOMAIN promises = {}

\* evaluateGraduation was called without courseCodes and has failed
C6_Witness ==
  /\ pc = "returned"
  /\ op = "evaluateGraduation"
  /\ ctx.courseCodes = Undefined
  /\ outcome.err = "ValidationError"

\* C7: the TOTAL_CREDIT Result has current equal to the credit of the taken
\* courses the provider knows whose grade is not 'F', and passed iff current >= 130.
C7_TotalCreditSumsNonFailedCourses ==
  (pc = "returned" /\ op = "Rule.evaluate" /\ subject.id = "TOTAL_130")
    => /\ outcome.ok
       /\ outcome.val.current = Num(CreditOver("ANY"))
       /\ outcome.val.passed = Bool(CreditOver("ANY") >= 130)

\* C8: the MAJOR_BASIC_CREDIT, MAJOR_ADVANCED_CREDIT and LIBERAL_TOTAL_CREDIT
\* Results have current equal to the credit of the taken, not failed courses the
\* provider classifies as basic major, advanced major and liberal, and passed
\* iff current reaches 51, 21 and 33.
C8_ClassifiedCreditSums ==
  (pc = "returned" /\ op = "Rule.evaluate" /\ outcome.ok) =>
    /\ subject.id = "MAJOR_BASIC_51" =>
         LET sum == CreditOver("BASIC")
         IN outcome.val.current = Num(sum) /\ outcome.val.passed = Bool(sum >= 51)
    /\ subject.id = "MAJOR_ADV_21" =>
         LET sum == CreditOver("ADVANCED")
         IN outcome.val.current = Num(sum) /\ outcome.val.passed = Bool(sum >= 21)
    /\ subject.id = "LIBERAL_TOTAL_33" =>
         LET sum == CreditOver("LIBERAL")
         IN outcome.val.current = Num(sum) /\ outcome.val.passed = Bool(sum >= 33)

\* C9: the REQUIRED_COURSE rule for c passes iff c is in courseCodes and
\* grades[c] is not 'F', whether or not the provider knows c.
C9_RequiredCoursePassesIffTakenAndNotFailed ==
  HasResult =>
    \A i \in 1..Len(RuleResults(outcome.val)) :
      LET r == RuleResults(outcome.val)[i]
      IN r.type = RuleType.REQUIRED_COURSE =>
           r.passed = Bool(IsTaken(r.required.s) /\ ~FailedGrade(r.required.s))

\* a required course the provider has no record of passed, taken without a grade
C9_Witness ==
  /\ HasResult
  /\ op = "Rule.evaluate"
  /\ subject.type = RuleType.REQUIRED_COURSE
  /\ ~master[subject.required.s].exists
  /\ ctx.grades[subject.required.s] = NoGrade
  /\ outcome.val.passed = Bool(TRUE)

\* C10: the EXTRA_CURRICULAR rule passes iff extraCurricularUnits (0 when
\* absent) reaches 35 for a transfer student and 70 for every other studentType.
C10_ExtraCurricularThreshold ==
  (HasResult /\ op = "Rule.evaluate" /\ subject.type = RuleType.EXTRA_CURRICULAR) =>
    LET units == IF ctx.extraCurricularUnits = Undefined THEN 0
                 ELSE ctx.extraCurricularUnits.n
        threshold == IF ctx.studentType = Str(TransferStudent) THEN 35 ELSE 70
    IN outcome.val.passed = Bool(units >= threshold)

\* 40 units passed for a transfer student
C10_Witness ==
  /\ HasResult
  /\ op = "Rule.evaluate"
  /\ subject.type = RuleType.EXTRA_CURRICULAR
  /\ ctx.studentType = Str(TransferStudent)
  /\ ctx.extraCurricularUnits = Num(40)
  /\ outcome.val.passed = Bool(TRUE)

\* the four rule types that count credits
CreditTypes ==
  {RuleType.TOTAL_CREDIT, RuleType.MAJOR_BASIC_CREDIT,
   RuleType.MAJOR_ADVANCED_CREDIT, RuleType.LIBERAL_TOTAL_CREDIT}

\* C11: a credit rule Result with numeric required and current has remaining
\* equal to max(0, required - current): the shortfall below the threshold, 0 at
\* or above it, never negative.
C11_RemainingIsClampedShortfall ==
  HasResult =>
    \A i \in 1..Len(RuleResults(outcome.val)) :
      LET r == RuleResults(outcome.val)[i]
      IN (r.type \in CreditTypes /\ IsNum(r.required) /\ IsNum(r.current)) =>
           r.remaining = Num(IF r.current.n >= r.required.n THEN 0
                             ELSE r.required.n - r.current.n)

\* a credit rule requiring 130 credits was evaluated over 140 and has remaining 0
C11_Witness ==
  /\ HasResult
  /\ op = "Rule.evaluate"
  /\ outcome.val.type \in CreditTypes
  /\ outcome.val.required = Num(130)
  /\ outcome.val.current = Num(140)
  /\ outcome.val.remaining = Num(0)

\* C12: a group with no children passes under AND and fails under OR, with an
\* empty results list; the empty REQUIRED_BASIC_LIBERAL group passes, so the
\* LIBERAL group passes exactly when its credit rule does.
C12_EmptyGroupIsVacuous ==
  HasResult =>
    \A g \in GroupResults(outcome.val) :
      /\ Len(g.results) = 0 => g.passed = Bool(g.logic = LogicType.AND)
      /\ g.id = liberalRuleGroup.id =>
           /\ g.results[2].id = requiredBasicLiberalGroup.id
           /\ g.results[2].results = <<>>
           /\ g.results[2].passed = Bool(TRUE)
           /\ g.passed = Bool(Truthy(g.results[1].passed))

\* the LIBERAL group was evaluated and its empty second child passed
C12_Witness ==
  /\ HasResult
  /\ subject = liberalRuleGroup
  /\ Len(subject.children[2].children) = 0
  /\ outcome.val.results[2].results = <<>>
  /\ outcome.val.results[2].passed = Bool(TRUE)

\* the list has an entry for the rule of this type with these numbers
Lists(items, type, current, remaining) ==
  \E i \in 1..Len(items) :
    /\ items[i].type = type
    /\ items[i].current = Num(current)
    /\ items[i].remaining = Num(remaining)

\* C13: the request {courseCodes: ["CS204"], grades: {CS204: "A+"}, freshman, 0
\* units} against a provider where CS204 is a 3-credit basic-major course
\* returns passed = false with missingItems listing TOTAL_CREDIT (3, 127),
\* MAJOR_BASIC_CREDIT (3, 48), MAJOR_ADVANCED_CREDIT (0, 21),
\* LIBERAL_TOTAL_CREDIT (0, 33) and EXTRA_CURRICULAR (0, 70).
C13_EndToEndScenario ==
  (/\ pc = "returned"
   /\ op = "evaluateGraduation"
   /\ ctx = ScenarioContext
   /\ store = "up"
   /\ master["CS204"].exists
   /\ master["CS204"].credit = 3
   /\ master["CS204"].type = "MAJOR"
   /\ master["CS204"].stage = "BASIC")
    => /\ outcome.ok
       /\ outcome.val.passed = Bool(FALSE)
       /\ Lists(outcome.val.missingItems, RuleType.TOTAL_CREDIT, 3, 127)
       /\ Lists(outcome.val.missingItems, RuleType.MAJOR_BASIC_CREDIT, 3, 48)
       /\ Lists(outcome.val.missingItems, RuleType.MAJOR_ADVANCED_CREDIT, 0, 21)
       /\ Lists(outcome.val.missingItems, RuleType.LIBERAL_TOTAL_CREDIT, 0, 33)
       /\ Lists(outcome.val.missingItems, RuleType.EXTRA_CURRICULAR, 0, 70)

\* the child is a Rule or a RuleGroup
Evaluatable(child) == "node" \in DOMAIN child /\ child.node \in {"Rule", "RuleGroup"}

\* C14: the built tree is ROOT (AND) over TOTAL_CREDIT, LIBERAL (AND:
\* LIBERAL_TOTAL_CREDIT, empty REQUIRED_BASIC_LIBERAL), MAJOR (AND:
\* MAJOR_BASIC_CREDIT, MAJOR_ADVANCED_CREDIT), REQUIRED_COURSES (AND: one
\* REQUIRED_COURSE rule per course flagged required) and EXTRA_CURRICULAR, in
\* this order, every child an evaluatable Rule or RuleGroup.
C14_TreeShape ==
  (pc = "returned" /\ op = "evaluateGraduation" /\ subject /= NoSubject)
    => /\ subject.id = "ROOT"
       /\ subject.logic = LogicType.AND
       /\ Len(subject.children) = 5
       /\ \A i \in 1..5 : Evaluatable(subject.children[i])
       /\ subject.children[1] = totalCreditRule
       /\ subject.children[2] = liberalRuleGroup
       /\ subject.children[3] = majorRuleGroup
       /\ subject.children[4].id = "REQUIRED_COURSES"
       /\ subject.children[4].logic = LogicType.AND
       /\ Len(subject.children[4].children) = Len(getRequiredCourses)
       /\ \A i \in 1..Len(getRequiredCourses) :
            /\ subject.children[4].children[i].type = RuleType.REQUIRED_COURSE
            /\ subject.children[4].children[i].required = Str(getRequiredCourses[i].courseCode)
       /\ subject.children[5] = extraCurricularRule

\* C15: for a request whose courseCodes is an array the handler responds after
\* the evaluation has completed, with success = true, data.passed a boolean
\* and data.missingItems a list taken from the evaluation result.
C15_RouteRespondsWithResult ==
  (pc = "returned" /\ op = "POST /check" /\ ctx.courseCodes.t = "array")
    => /\ outcome.val.status = 200
       /\ outcome.val.success
       /\ IsBool(outcome.val.data.passed)
       /\ outcome.val.data.missingItems /= Undefined

\* C16: for a request whose courseCodes is missing or not an array the handler
\* responds 400 with success = false, without calling evaluateGraduation and
\* without touching the provider.
C16_RouteRejectsBadCourseCodes ==
  (pc = "returned" /\ op = "POST /check" /\ ctx.courseCodes.t /= "array")
    => /\ outcome.val.status = 400
       /\ ~outcome.val.success
       /\ outcome.trace = <<>>
       /\ DOMAIN promises = {}

\* a request with a string for courseCodes was answered 400
C16_Witness ==
  /\ pc = "returned"
  /\ op = "POST /check"
  /\ ctx.courseCodes = Str("CS204")
  /\ outcome.val.status = 400
  /\ ~outcome.val.success

\* provider operations that read Firestore
StoreReads == {"getByCourseCodes", "getRequiredCourses", "getByCourseCode"}

\* the call read the store
ReadsStore(tr) == \E i \in 1..Len(tr) : tr[i].ev = "provider" /\ tr[i].what \in StoreReads

\* C17: when the store fails while an evaluator or the tree builder fetches
\* course data, the evaluation fails: it returns no Result, and no promise it
\* created is fulfilled with zero or partial credit in place of the error.
C17_ProviderFailurePropagates ==
  (/\ pc = "returned"
   /\ op \in {"evaluateGraduation", "Rule.evaluate", "RuleGroup.evaluate"}
   /\ store = "down"
   /\ ReadsStore(outcome.trace))
    => /\ ~outcome.ok
       /\ \A key \in DOMAIN promises : promises[key].state /= "fulfilled"

\* C18: evaluateGraduation either fails with an error and returns nothing, or
\* returns a tree with a completed Result for every node of the requirement
\* tree and the missingItems computed from that tree.
C18_NeverPartiallyReturns ==
  (pc = "returned" /\ op = "evaluateGraduation") =>
    IF outcome.ok
    THEN /\ "id" \in DOMAIN outcome.val.tree
         /\ Mirrors(subject, outcome.val.tree)
         /\ \A i \in 1..Len(RuleResults(outcome.val.tree)) :
              IsBool(RuleResults(outcome.val.tree)[i].passed)
         /\ outcome.val.missingItems = extractMissingItems(outcome.val.tree, <<>>)
    ELSE outcome.val = Undefined /\ outcome.err /= ""

\* an evaluation that had entered ROOT and its first rule failed, returning nothing
C18_Witness ==
  /\ pc = "returned"
  /\ op = "evaluateGraduation"
  /\ ctx.courseCodes.t = "array"
  /\ Len(Evaluated(outcome.trace)) >= 2
  /\ ~outcome.ok
  /\ outcome.val = Undefined

\* C19: a taken course whose record is malformed (no credit, type, stage or
\* required flag) never aborts the evaluation: the call returns a result, every
\* credit rule has a numeric sum to which the course adds nothing, and no
\* REQUIRED_COURSE rule exists for it.
C19_MalformedRecordCountsZero ==
  (/\ pc = "returned"
   /\ op = "evaluateGraduation"
   /\ ctx.courseCodes.t = "array"
   /\ store = "up"
   /\ \E i \in 1..Len(Taken) : master[Taken[i]] = Malformed)
    => /\ outcome.ok
       /\ \A i \in 1..Len(RuleResults(outcome.val.tree)) :
            LET r == RuleResults(outcome.val.tree)[i]
            IN /\ r.type = RuleType.TOTAL_CREDIT => r.current = Num(CreditOver("ANY"))
               /\ r.type = RuleType.MAJOR_BASIC_CREDIT => r.current = Num(CreditOver("BASIC"))
               /\ r.type = RuleType.MAJOR_ADVANCED_CREDIT => r.current = Num(CreditOver("ADVANCED"))
               /\ r.type = RuleType.LIBERAL_TOTAL_CREDIT => r.current = Num(CreditOver("LIBERAL"))
               /\ r.type = RuleType.REQUIRED_COURSE => master[r.required.s] /= Malformed

ClassOf(id) ==
  CASE id = "MAJOR_BASIC_51" -> "BASIC"
    [] id = "MAJOR_ADV_21" -> "ADVANCED"
    [] OTHER -> "LIBERAL"

\* the credit an evaluator sums for context c evaluated alone: over the
\* positions of c.courseCodes the store returns a course of the class for,
\* not graded 'F'
SumOver(c, class) ==
  LET taken == CodesOrEmpty(c).a
      upTo[n \in 0..Len(taken)] ==
        IF n = 0 THEN 0
        ELSE upTo[n - 1]
             + (IF /\ store = "up"
                   /\ master[taken[n]].exists
                   /\ c.grades[taken[n]] /= "F"
                   /\ Classified(master[taken[n]], class)
                THEN master[taken[n]].credit ELSE 0)
  IN upTo[Len(taken)]

\* passed of a synchronous rule's Result for context c evaluated alone
PassedAlone(r, c) ==
  IF r.type = RuleType.REQUIRED_COURSE
  THEN Bool(/\ \E i \in 1..Len(CodesOrEmpty(c).a) : CodesOrEmpty(c).a[i] = r.required.s
            /\ c.grades[r.required.s] /= "F")
  ELSE Bool((IF c.extraCurricularUnits = Undefined THEN 0 ELSE c.extraCurricularUnits.n)
            >= (IF c.studentType = Str(TransferStudent) THEN 35 ELSE 70))

\* the evaluation of context c, as far as it has got, is what it is when run alone
AsAlone(c, o, ps) ==
  /\ o.ok =>
       \A i \in 1..Len(RuleResults(o.val)) :
         LET r == RuleResults(o.val)[i]
         IN r.type \in {RuleType.REQUIRED_COURSE, RuleType.EXTRA_CURRICULAR} =>
              r.passed = PassedAlone(r, c)
  /\ \A key \in DOMAIN ps :
       (ps[key].state = "fulfilled" /\ key.fn = "evaluator") =>
         ps[key].value.o.current = Num(SumOver(c, ClassOf(key.of)))

\* C21: two evaluations with different contexts interleaved on the same tree
\* each produce what they produce alone: neither its Results nor what its
\* suspended evaluators resume with depend on the other's context.
C21_InterleavedEvaluationsAreIndependent ==
  (pc = "returned" /\ op \in {"Rule.evaluate", "RuleGroup.evaluate"} /\ other.started) =>
    /\ AsAlone(ctx, outcome, promises)
    /\ AsAlone(other.ctx, other.outcome, other.promises)

\* two evaluations of MAJOR_BASIC_51 were both suspended; the second was
\* answered first, and each summed its own student's credits
C21_Witness ==
  /\ pc = "returned"
  /\ op = "Rule.evaluate"
  /\ other.started
  /\ subject.id = "MAJOR_BASIC_51"
  /\ \E key \in DOMAIN promises \cap DOMAIN other.promises :
       /\ promises[key].state = "fulfilled"
       /\ other.promises[key].state = "fulfilled"
       /\ promises[key].value.o.current = Num(0)
       /\ other.promises[key].value.o.current = Num(3)

\* sum of credit over the set of taken codes: each code the provider knows, not
\* graded 'F' and of the class counts once, however often courseCodes names it
CreditOverSet(class) ==
  LET upTo[n \in 0..Len(CodeOrder)] ==
        IF n = 0 THEN 0
        ELSE upTo[n - 1]
             + (IF /\ IsTaken(CodeOrder[n])
                   /\ master[CodeOrder[n]].exists
                   /\ ~FailedGrade(CodeOrder[n])
                   /\ Classified(master[CodeOrder[n]], class)
                THEN master[CodeOrder[n]].credit ELSE 0)
  IN upTo[Len(CodeOrder)]

\* C22: the evaluation depends only on the set of codes in courseCodes: the
\* credit sum a credit rule computes (the current of its Result, or what its
\* suspended evaluator resumes with) is the sum over the distinct taken codes,
\* whatever their order and however often a code is repeated.
C22_DependsOnlyOnTheSetOfCodes ==
  (/\ pc = "returned"
   /\ op = "Rule.evaluate"
   /\ subject.type \in CreditTypes
   /\ subject \in BuiltRules
   /\ store = "up"
   /\ outcome.ok)
    => /\ IsNum(outcome.val.current) =>
            outcome.val.current = Num(CreditOverSet(ClassOf(subject.id)))
       /\ \A key \in DOMAIN promises :
            (promises[key].state = "fulfilled" /\ key.fn = "evaluator") =>
              promises[key].value.o.current = Num(CreditOverSet(ClassOf(key.of)))

\* REQ_<code> per course the provider flags required, in the query's order
RequiredRuleIds == [i \in 1..Len(getRequiredCourses) |-> "REQ_" \o getRequiredCourses[i].courseCode]

C24_RequiredCourseRemainingIsZero ==
  HasResult =>
    /\ \A i \in 1..Len(RuleResults(outcome.val)) :
         LET r == RuleResults(outcome.val)[i]
         IN r.type = RuleType.REQUIRED_COURSE =>
              /\ r.current = Num(IF Truthy(r.passed) THEN 1 ELSE 0)
              /\ r.remaining = Num(0)
    /\ missing.done =>
         \A i \in 1..Len(missing.items) :
           missing.items[i].type = RuleType.REQUIRED_COURSE =>
             missing.items[i].remaining = Num(0)

\* C26: the EXTRA_CURRICULAR Result agrees with its evaluator: the threshold
\* in the message is the one compared against (35 for a transfer student, 70
\* otherwise), the message says "met" iff passed, and when not passed the
\* shortfall in the message and remaining both equal that threshold minus current.
C26_ExtraCurricularResultIsSelfConsistent ==
  (HasResult /\ op = "Rule.evaluate" /\ subject.type = RuleType.EXTRA_CURRICULAR) =>
    LET units == IF ctx.extraCurricularUnits = Undefined THEN 0
                 ELSE ctx.extraCurricularUnits.n
        threshold == IF ctx.studentType = Str(TransferStudent) THEN 35 ELSE 70
    IN /\ outcome.val.message.required = Num(threshold)
       /\ outcome.val.message.met = Truthy(outcome.val.passed)
       /\ ~Truthy(outcome.val.passed) =>
            /\ outcome.val.message.short = Num(threshold - units)
            /\ outcome.val.remaining = Num(threshold - units)

RECURSIVE AllAnd(_)
\* every group of the tree aggregates with AND
AllAnd(node) ==
  node.node = "Rule"
  \/ /\ node.node = "RuleGroup"
     /\ node.logic = LogicType.AND
     /\ \A i \in 1..Len(node.children) : AllAnd(node.children[i])

C25_InputsUnchanged ==
  [][(pc = "returned" /\ pc' = "returned") =>
       /\ ctx' = ctx
       /\ subject' = subject
       /\ printed' /= printed => (outcome' = outcome /\ missing' = missing)]_vars

\* a group's Result tree was evaluated, flattened and rendered, one line per node
C25_Witness ==
  /\ pc = "returned"
  /\ op = "RuleGroup.evaluate"
  /\ missing.done
  /\ printed.done
  /\ printed.out.ok
  /\ Len(printed.out.val) >= 3
  /\ Len(missing.items) >= 1

\* ------------------------------------------------ timetables and users claims
\* no client has called save directly: only addCourse wrote the timetable
OnlyAddCourse == \A e \in log : e.op \in {"addCourse", "register", "create"}

\* no course_code occurs twice in the courses of a document
NoDuplicateCourse(courses) ==
  \A i, j \in 1..Len(courses) : courses[i] = courses[j] => i = j

\* C28: after any interleaving of addCourse calls for one (studentId, year,
\* semester), the stored timetable holds no course_code twice and holds every
\* course whose addCourse call reported success.
C28_AddCourseKeepsEveryCourse ==
  OnlyAddCourse =>
    /\ \A i \in 1..Len(db.timetables) : NoDuplicateCourse(db.timetables[i].courses)
    /\ \A e \in log :
         (e.op = "addCourse" /\ e.ok)
           => existingCourse(findByStudentAndSemester(db.timetables).courses, e.key)

\* C29: after any interleaving of save and addCourse calls the timetables
\* collection holds at most one document of the (studentId, year, semester).
C29_OneTimetablePerSemester == Len(db.timetables) <= 1

\* completed create calls for a studentId that reported success
CreatedUsers(studentId) == {e \in log : e.op = "create" /\ e.key = studentId /\ e.ok}

\* C30: for any interleaving of create calls with one studentId, at most one
\* call succeeds and the stored passwordHash is the one that call wrote.
C30_CreateNeverOverwrites ==
  \A studentId \in StudentIds :
    /\ Cardinality(CreatedUsers(studentId)) <= 1
    /\ \A e \in CreatedUsers(studentId) : db.users[studentId] = e.hash

====
